---- MODULE Spec2Model ----
(***************************************************************************)
(* The late require-capability pass of the Slang compiler                  *)
(* (source/slang/slang-ir-late-require-capability.cpp).                    *)
(*                                                                         *)
(* processLateRequireCapabilityInsts builds the entry-point reference      *)
(* graph, walks the top-level functions of the module, checks every        *)
(* IRLateRequireCapability instruction against each entry point that       *)
(* references the function, and removes the instruction.                   *)
(***************************************************************************)
EXTENDS Integers, Sequences, FiniteSets, TLC

VARIABLES
    m_module,       \* the children of the module instruction, in order
    module0,        \* the module as it was handed to the pass (history)
    reach,          \* what buildEntryPointReferenceGraph computes for the module
    stageCaps,      \* profile -> capability set named by Profile::getCapabilityName
    m_targetCaps,   \* ProcessLateRequireCapabilityInstsContext::m_targetCaps
    m_optionSet,    \* the option set: RestrictiveCapabilityCheck and the profile name
    m_mapInstToReferencingEntryPoints,
    m_status,       \* SLANG_OK or SLANG_FAIL
    m_sink,         \* the diagnostics given to the sink, in order
    calls,          \* the invocations of checkCapability, in order (history)
    removed,        \* the instructions removeAndDeallocate was called on, in order
    pc,             \* where the pass is
    func,           \* processModule: index of the child being visited
    block,          \* processFunc: index of the block being scanned
    inst,           \* processFunc: index of the instruction being scanned
    instsToRemove,  \* processFunc: the local list
    entryPoints     \* processFunc: entry points of the current marker not yet visited

vars == << m_module, module0, reach, stageCaps, m_targetCaps, m_optionSet,
           m_mapInstToReferencingEntryPoints, m_status, m_sink, calls, removed,
           pc, func, block, inst, instsToRemove, entryPoints >>

(***************************************************************************)
(* Bounds of the model.                                                    *)
(***************************************************************************)
\* children of the module instruction
MaxFuncs == 2
\* blocks of one function
MaxBlocks == 2
\* ordinary instructions of the whole module
MaxInsts == 2

(***************************************************************************)
(* Capability atoms, atom sets and capability sets.                        *)
(***************************************************************************)
Atoms == {"FeatureX", "FeatureY"}

CapabilityAtomSets == SUBSET Atoms

\* a capability set is a set of alternatives, each a set of atoms
CapabilitySets == SUBSET CapabilityAtomSets

Profiles == {"P1", "P2"}

NoDecoration == "none"

(***************************************************************************)
(* The capability algebra the pass calls (CapabilitySet and                *)
(* CapabilityAtomSet are defined outside this file).                       *)
(***************************************************************************)

\* CapabilitySet::join: an empty set takes the other operand as it is, otherwise
\* the guarantees of other are folded into every alternative of the receiver
join(this, other) ==
    IF this = {} THEN other
    ELSE IF other = {} THEN this
    ELSE { a \cup b : a \in this, b \in other }

\* CapabilitySet::atLeastOneSetImpliedInOther(required) == Implied: some
\* alternative of the receiver holds every atom of some alternative of required
atLeastOneSetImpliedInOther(this, required) ==
    \E a \in this : \E r \in required : r \subseteq a

\* the position of an atom set in the canonical order of alternatives
AtomWeight(atom) == IF atom = "FeatureX" THEN 1 ELSE 2

RECURSIVE AtomSetRank(_)
AtomSetRank(atoms) ==
    IF atoms = {} THEN 0
    ELSE LET a == CHOOSE x \in atoms : TRUE
         IN  AtomWeight(a) + AtomSetRank(atoms \ {a})

\* CapabilitySet::getAtomSets tested as a condition: there is a first atom set
hasAtomSets(caps) == caps # {}

\* *getAtomSets(): the first atom set in canonical order
firstAtomSet(caps) ==
    CHOOSE a \in caps : \A b \in caps : AtomSetRank(a) <= AtomSetRank(b)

\* CapabilityAtomSet::calcSubtract(out, a, b): out = a minus b
calcSubtract(a, b) == a \ b

(***************************************************************************)
(* Instructions, functions and the module.                                 *)
(***************************************************************************)
OpLateRequireCapability == "LateRequireCapability"
OpOther == "Other"

\* as<IRLateRequireCapability>(inst)
isLateRequireCapability(i) == i.op = OpLateRequireCapability

\* as<IRFunc>(inst)
isFunc(child) == child.isFunc

\* entryPoint->findDecoration<IREntryPointDecoration>()
hasEntryPointDecoration(mod, e) == mod[e].decor # NoDecoration

\* entryPointDecor->getProfile()
getProfile(mod, e) == mod[e].decor

\* a scan that stops after the first block of the function
getFirstBlockOnly(mod, f) ==
    IF Len(mod[f].blocks) = 0 THEN << >> ELSE << mod[f].blocks[1] >>

\* func->getBlocks()
getBlocks(mod, f) == mod[f].blocks

\* the ordinary instructions of function f of a module
InstsOfFunc(mod, f) ==
    UNION { { mod[f].blocks[b][k] : k \in 1..Len(mod[f].blocks[b]) } :
            b \in 1..Len(mod[f].blocks) }

\* the IRLateRequireCapability instructions of function f of a module
MarkersOfFunc(mod, f) == { i \in InstsOfFunc(mod, f) : isLateRequireCapability(i) }

\* the top-level functions of a module
FuncsOf(mod) == { f \in 1..Len(mod) : isFunc(mod[f]) }

\* the IRLateRequireCapability instructions of all the functions of a module
MarkersOf(mod) == UNION { MarkersOfFunc(mod, f) : f \in FuncsOf(mod) }

\* inst->removeAndDeallocate(): the instruction leaves its block, nothing else moves
removeAndDeallocate(mod, id) ==
    [f \in 1..Len(mod) |->
        [mod[f] EXCEPT !.blocks =
            [b \in 1..Len(mod[f].blocks) |->
                SelectSeq(mod[f].blocks[b], LAMBDA i : i.id # id)]]]

(***************************************************************************)
(* checkCapability(entry, profile, capSet)                                 *)
(***************************************************************************)
SLANG_OK == "SLANG_OK"
SLANG_FAIL == "SLANG_FAIL"

\* a check that forgets to join the stage capability set
targetCapsWithoutStage(profile) == m_targetCaps

\* the local copy of m_targetCaps joined with the profile's stage capability set
effectiveTargetCaps(profile) == join(m_targetCaps, stageCaps[profile])

\* the early return: the target with the stage implies one alternative of required
isImplied(profile, capSet) ==
    atLeastOneSetImpliedInOther(effectiveTargetCaps(profile), capSet.caps)

\* required.join(stageCapabilitySet)
requiredWithStage(profile, capSet) == join(capSet.caps, stageCaps[profile])

\* the missing delta: filled only when both sets have a first atom set
addedAtoms(profile, capSet) ==
    IF /\ hasAtomSets(effectiveTargetCaps(profile))
       /\ hasAtomSets(requiredWithStage(profile, capSet))
    THEN calcSubtract(firstAtomSet(requiredWithStage(profile, capSet)),
                      firstAtomSet(effectiveTargetCaps(profile)))
    ELSE {}

\* maybeDiagnoseWarningOrError: the error under the restrictive check, else the warning
maybeDiagnoseWarningOrError(entry, profile, capSet) ==
    [ id      |-> IF m_optionSet.RestrictiveCapabilityCheck
                  THEN "profileImplicitlyUpgradedRestrictive"
                  ELSE "profileImplicitlyUpgraded",
      pos     |-> <<entry>>,
      entry   |-> entry,
      profile |-> m_optionSet.Profile,
      atoms   |-> addedAtoms(profile, capSet) ]

\* m_sink->diagnose(capSet->sourceLoc, Diagnostics::seeCallOfFunc, ...)
seeCallOfFunc(capSet) ==
    [ id      |-> "seeCallOfFunc",
      pos     |-> capSet.sourceLoc,
      entry   |-> 0,
      profile |-> "__requireCapability()",
      atoms   |-> {} ]

\* a check without the early return
diagnoseAlways(entry, profile, capSet) ==
    << maybeDiagnoseWarningOrError(entry, profile, capSet), seeCallOfFunc(capSet) >>

\* a check that reports the call before the entry point
diagnosticsNoteFirst(entry, profile, capSet) ==
    IF atLeastOneSetImpliedInOther(join(m_targetCaps, stageCaps[profile]), capSet.caps)
    THEN << >>
    ELSE << seeCallOfFunc(capSet), maybeDiagnoseWarningOrError(entry, profile, capSet) >>

\* the diagnostics one invocation gives to the sink
diagnosticsOfCheck(entry, profile, capSet) ==
    IF isImplied(profile, capSet) THEN << >>
    ELSE << maybeDiagnoseWarningOrError(entry, profile, capSet), seeCallOfFunc(capSet) >>

\* a status that a satisfied check sets back to success
statusResetOnSuccess(status, profile, capSet) ==
    IF atLeastOneSetImpliedInOther(join(m_targetCaps, stageCaps[profile]), capSet.caps)
    THEN SLANG_OK
    ELSE IF m_optionSet.RestrictiveCapabilityCheck THEN SLANG_FAIL
    ELSE status

\* a status that fails on every deficiency, whatever the option says
statusIgnoringOption(status, profile, capSet) ==
    IF atLeastOneSetImpliedInOther(join(m_targetCaps, stageCaps[profile]), capSet.caps)
    THEN status
    ELSE SLANG_FAIL

\* m_status after one invocation
statusAfterCheck(status, profile, capSet) ==
    IF isImplied(profile, capSet) THEN status
    ELSE IF m_optionSet.RestrictiveCapabilityCheck THEN SLANG_FAIL
    ELSE status

\* lateRequireCap->getCapabilitySet() as an IRCapabilitySet
getCapabilitySet(i) == [ caps |-> i.caps, sourceLoc |-> i.sourceLoc ]

\* m_mapInstToReferencingEntryPoints.tryGetValue(func) found an entry
hasEntryPoints(f) == f \in DOMAIN m_mapInstToReferencingEntryPoints

\* a marker that is queued only when the map has an entry for the function
queueIfAttributed(list, lateRequireCap) ==
    IF hasEntryPoints(lateRequireCap.id[1]) THEN Append(list, lateRequireCap) ELSE list

\* instsToRemove.add(lateRequireCap)
queueForRemoval(list, lateRequireCap) == Append(list, lateRequireCap)

\* m_targetCaps after an invocation: the join was applied to the local copy
targetCapsAfterCheck(profile) == m_targetCaps

\* a loop over the entry points that stops after the first one
breakAfterFirstEntryPoint(eps, e) == {}

\* the entry points still to visit after entryPoint e
restOfEntryPoints(eps, e) == eps \ {e}


(***************************************************************************)
(* processModule and processFunc, one action per step.                     *)
(***************************************************************************)

\* buildEntryPointReferenceGraph(m_mapInstToReferencingEntryPoints, m_module),
\* then the loop starts at the first child
processModule_build ==
    /\ pc = "start"
    /\ m_mapInstToReferencingEntryPoints' = reach
    /\ func' = 1
    /\ pc' = "module"
    /\ UNCHANGED << m_module, module0, reach, stageCaps, m_targetCaps, m_optionSet,
                    m_status, m_sink, calls, removed, block, inst, instsToRemove,
                    entryPoints >>

\* the loop over the children ends; processLateRequireCapabilityInsts returns m_status
processModule_end ==
    /\ pc = "module"
    /\ func > Len(m_module)
    /\ pc' = "done"
    /\ UNCHANGED << m_module, module0, reach, stageCaps, m_targetCaps, m_optionSet,
                    m_mapInstToReferencingEntryPoints, m_status, m_sink, calls,
                    removed, func, block, inst, instsToRemove, entryPoints >>

\* if (!func) continue;
processModule_continue ==
    /\ pc = "module"
    /\ func <= Len(m_module)
    /\ ~isFunc(m_module[func])
    /\ func' = func + 1
    /\ UNCHANGED << m_module, module0, reach, stageCaps, m_targetCaps, m_optionSet,
                    m_mapInstToReferencingEntryPoints, m_status, m_sink, calls,
                    removed, pc, block, inst, instsToRemove, entryPoints >>

\* processFunc(func) is entered: the list is empty, the scan is at the first block
processFunc_enter ==
    /\ pc = "module"
    /\ func <= Len(m_module)
    /\ isFunc(m_module[func])
    /\ pc' = "scan"
    /\ block' = 1
    /\ inst' = 1
    /\ instsToRemove' = << >>
    /\ UNCHANGED << m_module, module0, reach, stageCaps, m_targetCaps, m_optionSet,
                    m_mapInstToReferencingEntryPoints, m_status, m_sink, calls,
                    removed, func, entryPoints >>

\* the block has no further ordinary instruction: the next block
processFunc_nextBlock ==
    /\ pc = "scan"
    /\ block <= Len(getBlocks(m_module, func))
    /\ inst > Len(getBlocks(m_module, func)[block])
    /\ block' = block + 1
    /\ inst' = 1
    /\ UNCHANGED << m_module, module0, reach, stageCaps, m_targetCaps, m_optionSet,
                    m_mapInstToReferencingEntryPoints, m_status, m_sink, calls,
                    removed, pc, func, instsToRemove, entryPoints >>

\* an instruction that is no IRLateRequireCapability is passed over
processFunc_otherInst ==
    /\ pc = "scan"
    /\ block <= Len(getBlocks(m_module, func))
    /\ inst <= Len(getBlocks(m_module, func)[block])
    /\ ~isLateRequireCapability(getBlocks(m_module, func)[block][inst])
    /\ inst' = inst + 1
    /\ UNCHANGED << m_module, module0, reach, stageCaps, m_targetCaps, m_optionSet,
                    m_mapInstToReferencingEntryPoints, m_status, m_sink, calls,
                    removed, pc, func, block, instsToRemove, entryPoints >>

\* a scan that removes the marker where it finds it, inside the loop over the block
processFunc_lateRequireCapRemovedAtOnce ==
    /\ pc = "scan"
    /\ block <= Len(getBlocks(m_module, func))
    /\ inst <= Len(getBlocks(m_module, func)[block])
    /\ isLateRequireCapability(getBlocks(m_module, func)[block][inst])
    /\ m_module' = removeAndDeallocate(m_module, getBlocks(m_module, func)[block][inst].id)
    /\ removed' = Append(removed, getBlocks(m_module, func)[block][inst].id)
    /\ UNCHANGED << module0, reach, stageCaps, m_targetCaps, m_optionSet,
                    m_mapInstToReferencingEntryPoints, m_status, m_sink, calls,
                    pc, func, block, inst, instsToRemove, entryPoints >>

\* an IRLateRequireCapability: it joins instsToRemove and the map is asked for
\* the entry points of the function
processFunc_lateRequireCap ==
    /\ pc = "scan"
    /\ block <= Len(getBlocks(m_module, func))
    /\ inst <= Len(getBlocks(m_module, func)[block])
    /\ isLateRequireCapability(getBlocks(m_module, func)[block][inst])
    /\ instsToRemove' = queueForRemoval(instsToRemove, getBlocks(m_module, func)[block][inst])
    /\ IF hasEntryPoints(func)
       THEN /\ entryPoints' = m_mapInstToReferencingEntryPoints[func]
            /\ pc' = "entryPoints"
            /\ inst' = inst
       ELSE /\ entryPoints' = entryPoints
            /\ pc' = pc
            /\ inst' = inst + 1
    /\ UNCHANGED << m_module, module0, reach, stageCaps, m_targetCaps, m_optionSet,
                    m_mapInstToReferencingEntryPoints, m_status, m_sink, calls,
                    removed, func, block >>

\* one turn of the loop over the hash set of entry points, in any order: an entry
\* point that has its decoration is checked, one without is passed over
processFunc_entryPoint ==
    /\ pc = "entryPoints"
    /\ \E entryPoint \in entryPoints :
        LET lateRequireCap == getBlocks(m_module, func)[block][inst]
            capSet == getCapabilitySet(lateRequireCap)
            profile == getProfile(m_module, entryPoint)
        IN  /\ entryPoints' = restOfEntryPoints(entryPoints, entryPoint)
            /\ IF hasEntryPointDecoration(m_module, entryPoint)
               THEN /\ calls' = Append(calls, [ entry |-> entryPoint,
                                               profile |-> profile,
                                               capSet |-> capSet ])
                    /\ m_sink' = m_sink \o diagnosticsOfCheck(entryPoint, profile, capSet)
                    /\ m_status' = statusAfterCheck(m_status, profile, capSet)
                    /\ m_targetCaps' = targetCapsAfterCheck(profile)
               ELSE UNCHANGED << calls, m_sink, m_status, m_targetCaps >>
    /\ UNCHANGED << m_module, module0, reach, stageCaps, m_optionSet,
                    m_mapInstToReferencingEntryPoints, removed, pc, func, block, inst,
                    instsToRemove >>

\* the loop over the entry points ends: the scan goes on after the marker
processFunc_entryPointsEnd ==
    /\ pc = "entryPoints"
    /\ entryPoints = {}
    /\ pc' = "scan"
    /\ inst' = inst + 1
    /\ UNCHANGED << m_module, module0, reach, stageCaps, m_targetCaps, m_optionSet,
                    m_mapInstToReferencingEntryPoints, m_status, m_sink, calls,
                    removed, func, block, instsToRemove, entryPoints >>

\* the loop over the blocks ends: the removal loop starts
processFunc_scanEnd ==
    /\ pc = "scan"
    /\ block > Len(getBlocks(m_module, func))
    /\ pc' = "remove"
    /\ UNCHANGED << m_module, module0, reach, stageCaps, m_targetCaps, m_optionSet,
                    m_mapInstToReferencingEntryPoints, m_status, m_sink, calls,
                    removed, func, block, inst, instsToRemove, entryPoints >>

\* lateRequireCap->removeAndDeallocate() for the next instruction of the list
processFunc_remove ==
    /\ pc = "remove"
    /\ instsToRemove # << >>
    /\ m_module' = removeAndDeallocate(m_module, Head(instsToRemove).id)
    /\ removed' = Append(removed, Head(instsToRemove).id)
    /\ instsToRemove' = Tail(instsToRemove)
    /\ UNCHANGED << module0, reach, stageCaps, m_targetCaps, m_optionSet,
                    m_mapInstToReferencingEntryPoints, m_status, m_sink, calls,
                    pc, func, block, inst, entryPoints >>

\* processFunc returns: the next child of the module
processFunc_return ==
    /\ pc = "remove"
    /\ instsToRemove = << >>
    /\ pc' = "module"
    /\ func' = func + 1
    /\ block' = 0
    /\ inst' = 0
    /\ UNCHANGED << m_module, module0, reach, stageCaps, m_targetCaps, m_optionSet,
                    m_mapInstToReferencingEntryPoints, m_status, m_sink, calls,
                    removed, instsToRemove, entryPoints >>

Next ==
    \/ processModule_build
    \/ processModule_end
    \/ processModule_continue
    \/ processFunc_enter
    \/ processFunc_nextBlock
    \/ processFunc_otherInst
    \/ processFunc_lateRequireCap
    \/ processFunc_entryPoint
    \/ processFunc_entryPointsEnd
    \/ processFunc_scanEnd
    \/ processFunc_remove
    \/ processFunc_return

(***************************************************************************)
(* The modules and configurations the pass is run on.                      *)
(***************************************************************************)

\* a module with every instruction given its identity and its source location:
\* the place it has in the module handed to the pass
Locate(shape) ==
    [f \in 1..Len(shape) |->
        [ isFunc |-> shape[f].isFunc,
          decor  |-> shape[f].decor,
          blocks |-> [b \in 1..Len(shape[f].blocks) |->
                        [k \in 1..Len(shape[f].blocks[b]) |->
                            [ op        |-> shape[f].blocks[b][k].op,
                              id        |-> <<f, b, k>>,
                              caps      |-> shape[f].blocks[b][k].caps,
                              sourceLoc |-> <<f, b, k>> ]]] ]]

OtherInst == [ op |-> OpOther, caps |-> {} ]

LateRequireCapabilityInst(required) == [ op |-> OpLateRequireCapability, caps |-> required ]

NonFunc == [ isFunc |-> FALSE, decor |-> NoDecoration, blocks |-> << >> ]

Func(decor, blocks) == [ isFunc |-> TRUE, decor |-> decor, blocks |-> blocks ]

RequireX == { {"FeatureX"} }
RequireY == { {"FeatureY"} }

\* the stage capability sets of the profiles: P1 guarantees FeatureX, P2 nothing
DefaultStageCaps == [p \in Profiles |-> IF p = "P1" THEN { {"FeatureX"} } ELSE {}]

NoMap == [f \in {} |-> {}]

\* the state the context is constructed in, for a module and a configuration
Construct(mod, graph, stages, targetCaps, restrictive) ==
    /\ m_module = mod
    /\ module0 = mod
    /\ reach = graph
    /\ stageCaps = stages
    /\ m_targetCaps = targetCaps
    /\ m_optionSet = [ RestrictiveCapabilityCheck |-> restrictive, Profile |-> "sm_6_0" ]
    /\ m_mapInstToReferencingEntryPoints = NoMap
    /\ m_status = SLANG_OK
    /\ m_sink = << >>
    /\ calls = << >>
    /\ removed = << >>
    /\ pc = "start"
    /\ func = 0
    /\ block = 0
    /\ inst = 0
    /\ instsToRemove = << >>
    /\ entryPoints = {}

\* --- modules of every shape: functions and other children, blocks, instructions
ScanKinds == { OtherInst, LateRequireCapabilityInst(RequireY) }

\* the bodies of exactly nb blocks holding exactly k instructions
RECURSIVE BodiesWith(_, _)
BodiesWith(nb, k) ==
    IF nb = 0 THEN (IF k = 0 THEN { << >> } ELSE {})
    ELSE UNION { LET rests == BodiesWith(nb - 1, k - j)
                 IN  { <<s>> \o rest : s \in [1..j -> ScanKinds], rest \in rests } :
                 j \in 0..k }

Bodies(k) == UNION { BodiesWith(nb, k) : nb \in 0..MaxBlocks }

ScanChildren(k) ==
    (IF k = 0 THEN { NonFunc } ELSE {})
    \cup { Func("P1", body) : body \in Bodies(k) }

\* every function is an entry point that references itself
SelfReach(shape) == [f \in FuncsOf(shape) |-> {f}]

\* the pass is constructed for a module of n more children after those of shape,
\* holding at most budget more instructions
RECURSIVE InitScanWith(_, _, _)
InitScanWith(shape, n, budget) ==
    IF n = 0
    THEN \E restrictive \in BOOLEAN :
            Construct(Locate(shape), SelfReach(shape), DefaultStageCaps, {}, restrictive)
    ELSE \E k \in 0..budget : \E c \in ScanChildren(k) :
            InitScanWith(Append(shape, c), n - 1, budget - k)

InitScan == \E n \in 1..MaxFuncs : InitScanWith(<< >>, n, MaxInsts)

\* --- every reference graph: the first function holds the markers, each function
\*     is an entry point of either profile or none, the map has no entry for the
\*     first function or any set of functions
AttributionBodies ==
    { << <<LateRequireCapabilityInst(RequireX)>> >>,
      << <<LateRequireCapabilityInst(RequireY)>> >>,
      << <<LateRequireCapabilityInst(RequireY), LateRequireCapabilityInst(RequireX)>> >> }

AttributionShapes ==
    UNION { { [f \in 1..n |-> Func(d[f], IF f = 1 THEN body ELSE << << >> >>)] :
                d \in [1..n -> {NoDecoration} \cup Profiles], body \in AttributionBodies } :
            n \in 1..MaxFuncs }

Graphs(shape) ==
    { NoMap } \cup { [f \in {1} |-> eps] : eps \in SUBSET (1..Len(shape)) }

InitAttribution ==
    \E shape \in AttributionShapes, restrictive \in BOOLEAN,
       targetCaps \in { {}, { {"FeatureY"} } } :
        \E graph \in Graphs(shape) :
            Construct(Locate(shape), graph, DefaultStageCaps, targetCaps, restrictive)

\* --- every capability set: one entry point with one marker, every target
\*     baseline, stage capability set and required set over the atoms
InitCapabilities ==
    \E targetCaps \in CapabilitySets, stage \in CapabilitySets, required \in CapabilitySets,
       restrictive \in BOOLEAN :
        Construct(
            Locate(<< NonFunc, Func("P1", << <<OtherInst, LateRequireCapabilityInst(required)>> >>) >>),
            [f \in {2} |-> {2}],
            [p \in Profiles |-> IF p = "P1" THEN stage ELSE {}],
            targetCaps, restrictive)

Init == InitScan \/ InitAttribution \/ InitCapabilities

Spec == Init /\ [][Next]_vars

(***************************************************************************)
(* What the properties below speak of.                                     *)
(***************************************************************************)
isRestrictive == m_optionSet.RestrictiveCapabilityCheck

IsPrimary(d) == d.id \in {"profileImplicitlyUpgraded", "profileImplicitlyUpgradedRestrictive"}

IsSecondary(d) == d.id = "seeCallOfFunc"

Range(seq) == { seq[i] : i \in 1..Len(seq) }

\* the function that owns an instruction of the module handed to the pass
OwnerOf(i) == i.id[1]

\* the entry points the reference graph attributes to function f
Attributed(f) == IF f \in DOMAIN reach THEN reach[f] ELSE {}

\* those of them that carry an entry-point decoration
DecoratedAttributed(f) == { e \in Attributed(f) : module0[e].decor # NoDecoration }

\* the target baseline joined with the stage baseline does not imply the required set
Deficient(profile, required) ==
    ~ \E a \in join(m_targetCaps, stageCaps[profile]) : \E r \in required : r \subseteq a

\* the entry points for which marker m has to be diagnosed
UnsatisfiedEntryPoints(m) ==
    { e \in DecoratedAttributed(OwnerOf(m)) : Deficient(module0[e].decor, m.caps) }

\* the (entry point, marker) pairs that have to be diagnosed in the whole module
ExpectedPairs ==
    UNION { { <<e, m.id>> : e \in UnsatisfiedEntryPoints(m) } : m \in MarkersOf(module0) }

\* the (entry point, marker) pairs the sink was given a primary diagnostic for,
\* the marker being the one the diagnostic right after it points at
DiagnosedPairs ==
    { <<m_sink[i].entry, m_sink[i + 1].pos>> :
        i \in { j \in 1..(Len(m_sink) - 1) : IsPrimary(m_sink[j]) } }

\* an invocation of the checker that found a deficiency
CallDeficient(c) == Deficient(c.profile, c.capSet.caps)

\* the sum, over the markers of the module handed to the pass, of the number of
\* entry points eps gives for the marker's owning function
SumOverMarkers(eps(_)) ==
    Cardinality(UNION { { <<m.id, e>> : e \in eps(OwnerOf(m)) } : m \in MarkersOf(module0) })

(***************************************************************************)
(* C1: when the pass finishes no requirement marker remains in any         *)
(* function, and every marker of the module handed to the pass was removed *)
(* exactly once: none is removed twice, none is skipped, whatever became   *)
(* of its checks.                                                          *)
(***************************************************************************)
C1_EveryMarkerRemovedOnce ==
    /\ \A i, j \in 1..Len(removed) : i # j => removed[i] # removed[j]
    /\ Range(removed) \subseteq { m.id : m \in MarkersOf(module0) }
    /\ pc = "done" =>
        /\ MarkersOf(m_module) = {}
        /\ Range(removed) = { m.id : m \in MarkersOf(module0) }

\* two markers are gone at the end of a run in which a check failed and a check passed
C1_Witness ==
    /\ pc = "done"
    /\ Len(removed) >= 2
    /\ m_status = SLANG_FAIL
    /\ \E i \in 1..Len(calls) : ~CallDeficient(calls[i])
    /\ MarkersOf(m_module) = {}

(***************************************************************************)
(* C2: the failure status is sticky and aborts nothing: once SLANG_FAIL,   *)
(* the status stays SLANG_FAIL, and at the end of the run every (marker,   *)
(* entry point) pair that has to be diagnosed was diagnosed and every      *)
(* marker was removed, whether or not a check failed earlier.              *)
(***************************************************************************)
C2_StickyFailureNoAbort ==
    [][ /\ (m_status = SLANG_FAIL => m_status' = SLANG_FAIL)
        /\ (pc' = "done" =>
              /\ DiagnosedPairs' = ExpectedPairs'
              /\ MarkersOf(m_module') = {}) ]_vars

\* a failed check, then a satisfied one, then another failed one; the status is failure
C2_Witness ==
    /\ pc = "done"
    /\ m_status = SLANG_FAIL
    /\ \E i, j, k \in 1..Len(calls) :
        /\ i < j /\ j < k
        /\ CallDeficient(calls[i])
        /\ ~CallDeficient(calls[j])
        /\ CallDeficient(calls[k])
    /\ Len(m_sink) >= 4

(***************************************************************************)
(* C3: the pass returns failure if and only if the restrictive capability  *)
(* check is set and some invocation of the checker found the effective     *)
(* target not implying the required set; with the option off it returns    *)
(* success even when deficiencies were diagnosed.                          *)
(***************************************************************************)
C3_FailureIffRestrictiveDeficiency ==
    pc = "done" =>
        (m_status = SLANG_FAIL <=>
            (isRestrictive /\ \E i \in 1..Len(calls) : CallDeficient(calls[i])))

\* a deficiency was diagnosed with the option off and the pass returns success
C3_Witness ==
    /\ pc = "done"
    /\ ~isRestrictive
    /\ \E i \in 1..Len(calls) : CallDeficient(calls[i])
    /\ Len(m_sink) > 0
    /\ m_status = SLANG_OK

(***************************************************************************)
(* C4 as stated: after one run the number of checker invocations equals    *)
(* the sum, over all markers, of the number of entry points the            *)
(* attribution map attributes to the marker's owning function.             *)
(***************************************************************************)
C4_CallsEqualAttributedCount ==
    pc = "done" =>
        Len(calls) = SumOverMarkers(Attributed)

(***************************************************************************)
(* C4 amended: after one run the number of checker invocations equals the  *)
(* sum, over all markers, of the number of attributed entry points of the  *)
(* marker's owning function that carry their entry-point decoration.       *)
(***************************************************************************)
C4_CallsEqualDecoratedAttributedCount ==
    pc = "done" =>
        Len(calls) = SumOverMarkers(DecoratedAttributed)

\* a marker with one attributed entry point that has its decoration and one that lost it
C4_Witness ==
    /\ pc = "done"
    /\ \E m \in MarkersOf(module0) :
        /\ Cardinality(Attributed(OwnerOf(m))) = 2
        /\ Cardinality(DecoratedAttributed(OwnerOf(m))) = 1
    /\ Len(calls) >= 1

(***************************************************************************)
(* C5: an orphaned marker is silently dropped: while a function is scanned *)
(* that has no entry in the attribution map, or an empty attributed set,   *)
(* or only attributed entry points without their decoration, no diagnostic *)
(* is emitted, the checker is not invoked and the status does not change,  *)
(* even under the restrictive flag; its markers are removed all the same.  *)
(***************************************************************************)
Orphaned(f) == DecoratedAttributed(f) = {}

C5_OrphanSilentlyDropped ==
    [][ /\ ((pc \in {"scan", "entryPoints", "remove"} /\ Orphaned(func)) =>
              /\ m_sink' = m_sink
              /\ calls' = calls
              /\ m_status' = m_status)
        /\ (pc' = "done" =>
              \A m \in MarkersOf(module0) :
                  Orphaned(OwnerOf(m)) =>
                      /\ m.id \in Range(removed')
                      /\ m \notin MarkersOf(m_module')
                      /\ \A i \in 1..Len(m_sink') : m_sink'[i].pos # m.id) ]_vars

\* under the restrictive flag a deficient marker whose only attributed entry point
\* lost its decoration is gone, with nothing diagnosed and the status success
C5_Witness ==
    /\ pc = "done"
    /\ isRestrictive
    /\ m_status = SLANG_OK
    /\ m_sink = << >>
    /\ \E m \in MarkersOf(module0) :
        /\ Attributed(OwnerOf(m)) # {}
        /\ Orphaned(OwnerOf(m))
        /\ \A p \in Profiles : Deficient(p, m.caps)
        /\ m.id \in Range(removed)

(***************************************************************************)
(* C6 as stated: for a marker of a function attributed to entry points of  *)
(* different profiles, diagnostics are produced only for the entry points  *)
(* whose effective target does not imply the required set, exactly one     *)
(* diagnostic is emitted to the sink per unsatisfied entry point, and the  *)
(* marker is removed once.                                                 *)
(***************************************************************************)
SeveralProfiles(m) ==
    \E e1, e2 \in DecoratedAttributed(OwnerOf(m)) : module0[e1].decor # module0[e2].decor

\* the places of the primary diagnostics caused by marker m
PrimariesFor(m) ==
    { i \in 1..(Len(m_sink) - 1) : IsPrimary(m_sink[i]) /\ m_sink[i + 1].pos = m.id }

\* the places of the secondary diagnostics that point at marker m
SecondariesFor(m) ==
    { i \in 1..Len(m_sink) : IsSecondary(m_sink[i]) /\ m_sink[i].pos = m.id }

RemovalsOf(m) == { i \in 1..Len(removed) : removed[i] = m.id }

C6_OneDiagnosticPerUnsatisfiedEntryPoint ==
    pc = "done" =>
        \A m \in MarkersOf(module0) :
            SeveralProfiles(m) =>
                /\ { m_sink[i].entry : i \in PrimariesFor(m) } = UnsatisfiedEntryPoints(m)
                /\ Cardinality(PrimariesFor(m) \cup SecondariesFor(m))
                       = Cardinality(UnsatisfiedEntryPoints(m))
                /\ Cardinality(RemovalsOf(m)) = 1

(***************************************************************************)
(* C6 amended: for a marker of a function attributed to entry points of    *)
(* different profiles, diagnostics are produced only for the entry points  *)
(* whose effective target does not imply the required set: per unsatisfied *)
(* entry point the sink is given exactly one primary diagnostic and        *)
(* exactly one secondary diagnostic, two in all, and none for a satisfied  *)
(* entry point; the marker is removed once.                                *)
(***************************************************************************)
C6_OnePrimaryAndOneSecondaryPerUnsatisfiedEntryPoint ==
    pc = "done" =>
        \A m \in MarkersOf(module0) :
            SeveralProfiles(m) =>
                /\ { m_sink[i].entry : i \in PrimariesFor(m) } = UnsatisfiedEntryPoints(m)
                /\ Cardinality(PrimariesFor(m)) = Cardinality(UnsatisfiedEntryPoints(m))
                /\ Cardinality(SecondariesFor(m)) = Cardinality(UnsatisfiedEntryPoints(m))
                /\ Cardinality(RemovalsOf(m)) = 1

\* one marker, one satisfied and one unsatisfied entry point of different profiles
C6_Witness ==
    /\ pc = "done"
    /\ \E m \in MarkersOf(module0) :
        /\ SeveralProfiles(m)
        /\ Cardinality(DecoratedAttributed(OwnerOf(m))) = 2
        /\ Cardinality(UnsatisfiedEntryPoints(m)) = 1
        /\ Cardinality(PrimariesFor(m)) = 1
        /\ MarkersOf(module0) = {m}
    /\ Len(m_sink) = 2
    /\ Len(removed) = 1

(***************************************************************************)
(* C7: an invocation of the checker emits no diagnostic and leaves the     *)
(* status unchanged exactly when the target baseline joined with the       *)
(* profile's stage baseline implies at least one alternative of the        *)
(* required set, and the configured target baseline is the same after the  *)
(* invocation as before it.                                                *)
(***************************************************************************)
C7_NoActionIffEffectiveTargetImplies ==
    [][ /\ m_targetCaps' = m_targetCaps
        /\ (calls' # calls =>
              LET c == calls'[Len(calls')]
              IN  (m_sink' = m_sink /\ m_status' = m_status)
                      <=> (\E a \in join(m_targetCaps, stageCaps[c.profile]) :
                             \E r \in c.capSet.caps : r \subseteq a)) ]_vars

\* target baseline {}, stage baseline {FeatureX}, required {FeatureX}: checked, no action
C7_Witness ==
    /\ Len(calls) = 1
    /\ m_targetCaps = {}
    /\ stageCaps[calls[1].profile] = { {"FeatureX"} }
    /\ calls[1].capSet.caps = { {"FeatureX"} }
    /\ m_sink = << >>
    /\ m_status = SLANG_OK

(***************************************************************************)
(* C8: whenever a deficiency is diagnosed, the missing-atom list of the    *)
(* diagnostic is the primary alternative of (required joined with the      *)
(* stage baseline) minus the primary alternative of the effective target,  *)
(* for every target baseline, stage baseline and required set, an empty    *)
(* target baseline and an empty stage baseline included (a set without     *)
(* alternatives gives no atoms): target {}, stage {}, required {FeatureY}  *)
(* names FeatureY.                                                         *)
(***************************************************************************)
PrimaryAlternative(caps) ==
    IF caps = {} THEN {}
    ELSE CHOOSE a \in caps : \A b \in caps : AtomSetRank(a) <= AtomSetRank(b)

MissingAtoms(c) ==
    PrimaryAlternative(join(c.capSet.caps, stageCaps[c.profile]))
        \ PrimaryAlternative(join(m_targetCaps, stageCaps[c.profile]))

C8_MissingAtomsAreTheDifference ==
    LET deficient == SelectSeq(calls, CallDeficient)
        primaries == SelectSeq(m_sink, IsPrimary)
    IN  /\ Len(primaries) = Len(deficient)
        /\ \A i \in 1..Len(primaries) : primaries[i].atoms = MissingAtoms(deficient[i])

(***************************************************************************)
(* C9: diagnostics follow the module: those caused by markers of a         *)
(* function declared earlier come before those of a function declared      *)
(* later, those of two markers of one function come in the markers' block  *)
(* and instruction order, and each primary diagnostic, at the entry        *)
(* point's location, is immediately followed by the secondary diagnostic   *)
(* at the source location of the marker that caused it.                    *)
(***************************************************************************)
\* marker location a is not after marker location b in the module
NotAfter(a, b) ==
    \/ a[1] < b[1]
    \/ a[1] = b[1] /\ a[2] < b[2]
    \/ a[1] = b[1] /\ a[2] = b[2] /\ a[3] <= b[3]

C9_DiagnosticsInModuleOrder ==
    LET deficient == SelectSeq(calls, CallDeficient)
    IN  /\ Len(m_sink) = 2 * Len(deficient)
        /\ \A n \in 1..Len(deficient) :
            /\ IsPrimary(m_sink[2 * n - 1])
            /\ m_sink[2 * n - 1].pos = <<deficient[n].entry>>
            /\ IsSecondary(m_sink[2 * n])
            /\ m_sink[2 * n].pos = deficient[n].capSet.sourceLoc
            /\ m_sink[2 * n].pos \in { m.id : m \in MarkersOf(module0) }
        /\ \A i, j \in 1..Len(m_sink) :
            (i < j /\ IsSecondary(m_sink[i]) /\ IsSecondary(m_sink[j]))
                => NotAfter(m_sink[i].pos, m_sink[j].pos)

\* a marker of the first function and a marker of a later function were both diagnosed
C9_Witness ==
    /\ pc = "done"
    /\ Len(m_sink) >= 4
    /\ IsSecondary(m_sink[2])
    /\ IsSecondary(m_sink[4])
    /\ m_sink[2].pos[1] < m_sink[4].pos[1]

(***************************************************************************)
(* C10: the pass changes nothing in the module but removes requirement     *)
(* markers: the children, each function's blocks, decoration and profile,  *)
(* and every other instruction in its order stay as they were; the         *)
(* attribution map is built once, before the first marker is removed, and  *)
(* is not modified afterwards; the markers of a function are removed only  *)
(* after that function's scan and all of its checks have finished.         *)
(***************************************************************************)
NonMarkers(blk) == SelectSeq(blk, LAMBDA i : ~isLateRequireCapability(i))

\* new is old with nothing but IRLateRequireCapability instructions taken out
OnlyMarkersRemoved(old, new) ==
    /\ Len(new) = Len(old)
    /\ \A f \in 1..Len(old) :
        /\ new[f].isFunc = old[f].isFunc
        /\ new[f].decor = old[f].decor
        /\ Len(new[f].blocks) = Len(old[f].blocks)
        /\ \A b \in 1..Len(old[f].blocks) :
            /\ NonMarkers(new[f].blocks[b]) = NonMarkers(old[f].blocks[b])
            /\ new[f].blocks[b] =
                   SelectSeq(old[f].blocks[b], LAMBDA i : i \in Range(new[f].blocks[b]))

C10_OnlyMarkersRemovedAfterScan ==
    [][ /\ OnlyMarkersRemoved(m_module, m_module')
        /\ OnlyMarkersRemoved(module0, m_module')
        /\ (m_mapInstToReferencingEntryPoints' # m_mapInstToReferencingEntryPoints =>
              pc = "start" /\ removed = << >>)
        /\ (pc # "start" => m_mapInstToReferencingEntryPoints = reach)
        /\ (removed' # removed =>
              /\ block > Len(m_module[func].blocks)
              /\ entryPoints = {}
              /\ removed'[Len(removed')][1] = func
              /\ \A m \in MarkersOfFunc(module0, func) :
                    \A e \in DecoratedAttributed(func) :
                        \E i \in 1..Len(calls) :
                            calls[i].entry = e /\ calls[i].capSet.sourceLoc = m.id) ]_vars

\* a marker is gone and the instruction that followed it in the block is still there
C10_Witness ==
    /\ pc = "done"
    /\ \E f \in 1..Len(module0) : \E b \in 1..Len(module0[f].blocks) :
        /\ Len(module0[f].blocks[b]) = 2
        /\ isLateRequireCapability(module0[f].blocks[b][1])
        /\ ~isLateRequireCapability(module0[f].blocks[b][2])
        /\ m_module[f].blocks[b] = << module0[f].blocks[b][2] >>
        /\ module0[f].decor # NoDecoration
        /\ m_module[f].decor = module0[f].decor

====
